---- MODULE Spec2Model ----
(***************************************************************************)
(* Model of the prompt-submission pipeline of ollama_ibm_strands.py:       *)
(* process_prompt (the agent call, the response check, the text            *)
(* extraction, the two exception handlers) as it is driven by the submit   *)
(* callback of build_gradio_interface from several calling contexts.       *)
(*                                                                         *)
(* Python values are records of one shape (k = type name, s = string       *)
(* payload, n = integer payload, items = list elements, d = set of         *)
(* <<key, value>> pairs for a dict or <<attribute, value>> pairs for an    *)
(* object).  An evaluation yields a record [exc, msg, val]: exc = "" and   *)
(* the value, or the type and message of the exception it raised.          *)
(*                                                                         *)
(* Failures raised by the agent are instances of Exception subclasses      *)
(* whose str() is their message; interpreter-level BaseExceptions          *)
(* (KeyboardInterrupt, SystemExit) are outside the model.                  *)
(***************************************************************************)
EXTENDS Integers, Sequences, FiniteSets, TLC

VARIABLES agent, callers, agentLast, pc, prompt, response, exc, out, exit,
          logged, calls, outcome

vars == <<agent, callers, agentLast, pc, prompt, response, exc, out, exit,
          logged, calls, outcome>>

\* ------------------------------------------------------------------ bounds
NumCallers == 2
MaxContentLen == 2

\* ----------------------------------------------------------- Python values
PyNone == [k |-> "NoneType", s |-> "", n |-> 0, items |-> <<>>, d |-> {}]

Unbound == [k |-> "<unbound>", s |-> "", n |-> 0, items |-> <<>>, d |-> {}]

PyStr(x) == [k |-> "str", s |-> x, n |-> 0, items |-> <<>>, d |-> {}]

PyInt(i) == [k |-> "int", s |-> "", n |-> i, items |-> <<>>, d |-> {}]

PyBool(b) == [k |-> "bool", s |-> "", n |-> IF b THEN 1 ELSE 0, items |-> <<>>, d |-> {}]

PyList(xs) == [k |-> "list", s |-> "", n |-> 0, items |-> xs, d |-> {}]

PyDict(pairs) == [k |-> "dict", s |-> "", n |-> 0, items |-> <<>>, d |-> pairs]

\* An object with attributes, such as the AgentResult the agent returns.
PyObj(attrs) == [k |-> "AgentResult", s |-> "", n |-> 0, items |-> <<>>, d |-> attrs]

IsStr(v) == v.k = "str"

\* bool(v): None, "", 0, [] and {} are false, any plain object is true.
Truthy(v) ==
  CASE v.k = "NoneType" -> FALSE
    [] v.k = "str" -> v.s # ""
    [] v.k \in {"int", "bool"} -> v.n # 0
    [] v.k = "list" -> v.items # <<>>
    [] v.k = "dict" -> v.d # {}
    [] OTHER -> TRUE

\* repr() of a subscript key, as it appears in str(KeyError(key)).
Repr(key) ==
  CASE key.k = "str" -> "'" \o key.s \o "'"
    [] key.k = "int" -> IF key.n = 0 THEN "0" ELSE "<int>"
    [] OTHER -> "<" \o key.k \o ">"

\* ------------------------------------------------------------- evaluation
Ok(v) == [exc |-> "", msg |-> "", val |-> v]

Raise(t, m) == [exc |-> t, msg |-> m, val |-> PyNone]

HasKey(obj, key) == \E p \in obj.d : p[1] = key

Lookup(obj, key) == (CHOOSE p \in obj.d : p[1] = key)[2]

\* obj.name
GetAttr(obj, name) ==
  IF obj.k = "AgentResult" /\ HasKey(obj, PyStr(name))
    THEN Ok(Lookup(obj, PyStr(name)))
    ELSE Raise("AttributeError",
               "'" \o obj.k \o "' object has no attribute '" \o name \o "'")

\* The 1-based position that index i denotes in a list or str of length len,
\* 0 when i is out of range.
SeqPos(len, i) ==
  IF i >= 0 /\ i < len THEN i + 1
  ELSE IF i < 0 /\ -i <= len THEN len + i + 1
  ELSE 0

\* obj[key]
GetItem(obj, key) ==
  CASE obj.k = "dict" ->
         IF HasKey(obj, key) THEN Ok(Lookup(obj, key))
                             ELSE Raise("KeyError", Repr(key))
    [] obj.k = "list" ->
         IF key.k \in {"int", "bool"}
           THEN IF SeqPos(Len(obj.items), key.n) # 0
                  THEN Ok(obj.items[SeqPos(Len(obj.items), key.n)])
                  ELSE Raise("IndexError", "list index out of range")
           ELSE Raise("TypeError",
                      "list indices must be integers or slices, not " \o key.k)
    [] obj.k = "str" ->
         IF key.k \in {"int", "bool"}
           THEN IF SeqPos(Len(obj.s), key.n) # 0
                  THEN Ok(PyStr(SubSeq(obj.s, SeqPos(Len(obj.s), key.n),
                                       SeqPos(Len(obj.s), key.n))))
                  ELSE Raise("IndexError", "string index out of range")
           ELSE Raise("TypeError", "string indices must be integers, not '"
                                     \o key.k \o "'")
    [] OTHER -> Raise("TypeError", "'" \o obj.k \o "' object is not subscriptable")

\* ------------------------------------------------ process_prompt, pure parts
NoResponseMsg == "Error: No response received from agent"

InvalidFormatMsg == "Error: Invalid response format"

\* The condition of line 80: not response or not response.message
NoResponse(resp) ==
  IF ~Truthy(resp) THEN Ok(PyBool(TRUE))
  ELSE LET m == GetAttr(resp, "message")
       IN IF m.exc # "" THEN m ELSE Ok(PyBool(~Truthy(m.val)))

\* Line 86 reading the last content segment: response.message["content"][-1]["text"]
FirstTextLast(resp) ==
  LET m == GetAttr(resp, "message") IN
  IF m.exc # "" THEN m ELSE
  LET c == GetItem(m.val, PyStr("content")) IN
  IF c.exc # "" THEN c ELSE
  LET e == GetItem(c.val, PyInt(-1)) IN
  IF e.exc # "" THEN e ELSE GetItem(e.val, PyStr("text"))

\* The expression of line 86: response.message["content"][0]["text"]
FirstText(resp) ==
  LET m == GetAttr(resp, "message") IN
  IF m.exc # "" THEN m ELSE
  LET c == GetItem(m.val, PyStr("content")) IN
  IF c.exc # "" THEN c ELSE
  LET e == GetItem(c.val, PyInt(0)) IN
  IF e.exc # "" THEN e ELSE GetItem(e.val, PyStr("text"))

\* Line 87 without IndexError: except (KeyError, TypeError)
InnerCaughtNoIndex == {"KeyError", "TypeError"}

\* Line 87 without TypeError: except (KeyError, IndexError)
InnerCaughtNoType == {"KeyError", "IndexError"}

\* The exception classes of line 87.
InnerCaught == {"KeyError", "IndexError", "TypeError"}

\* The subclasses of Exception that occur: the ones the agent raises and the
\* ones the evaluation of lines 80 and 86 raises.
ExceptionClasses ==
  {"Exception", "ConnectionError", "RuntimeError", "AttributeError",
   "KeyError", "IndexError", "TypeError"}

\* except Exception (line 89)
OuterCatches(t) == t \in ExceptionClasses

\* The record logger.error emits at line 90.
LogRecord(e) ==
  [level |-> "ERROR", msg |-> "Error processing prompt: " \o e.msg, exc_info |-> TRUE]

\* Line 91 without the prefix: return str(e)
ErrorResultBare(e) == PyStr(e.msg)

\* Line 91 returning the placeholder of line 88.
ErrorResultFixed(e) == PyStr(InvalidFormatMsg)

\* The value returned at line 91.
ErrorResult(e) == PyStr("Error: " \o e.msg)

\* ------------------------------------------------- what the agent may yield
Returned(v) == [kind |-> "return", val |-> v, type |-> "", msg |-> ""]

Raised(t, m) == [kind |-> "raise", val |-> PyNone, type |-> t, msg |-> m]

NoOutcome == [kind |-> "none", val |-> PyNone, type |-> "", msg |-> ""]

NoExc == [type |-> "", msg |-> ""]

SeqsUpTo(S, n) == UNION {[1..m -> S] : m \in 0..n}

Prompts == {"", "What is 2+2?"}

Texts == {"4", " 4 "}

TextPayloads == {PyStr(t) : t \in Texts} \cup {PyNone, PyInt(4)}

TextSegment(p) == PyDict({<<PyStr("text"), p>>})

ToolSegment == PyDict({<<PyStr("toolUse"), PyStr("calculator")>>})

Segments == {TextSegment(p) : p \in TextPayloads} \cup {ToolSegment, PyStr("4"), PyNone}

Contents ==
  {PyList(xs) : xs \in SeqsUpTo(Segments, MaxContentLen)}
    \cup {PyNone, PyStr("4"), PyStr(""), PyInt(4), PyDict({}),
          PyDict({<<PyInt(0), TextSegment(PyStr("4"))>>})}

Message(c) == PyDict({<<PyStr("role"), PyStr("assistant")>>, <<PyStr("content"), c>>})

Messages ==
  {Message(c) : c \in Contents}
    \cup {PyDict({<<PyStr("role"), PyStr("assistant")>>}), PyDict({}), PyNone,
          PyStr("hello"), PyStr("")}

AgentResult(m) == PyObj({<<PyStr("message"), m>>})

Responses ==
  {AgentResult(m) : m \in Messages}
    \cup {PyNone, PyStr(""), PyObj({}),
          PyDict({<<PyStr("message"), Message(PyList(<<TextSegment(PyStr("4"))>>))>>})}

Failures ==
  {Raised("ConnectionError", "Connection refused"),
   Raised("Exception", "Invalid response format"),
   Raised("KeyError", "'content'"),
   Raised("RuntimeError", "")}

Outcomes == {Returned(r) : r \in Responses} \cup Failures

\* The outcomes of the stub agent of the concurrent specification.
StubOutcomes ==
  {Returned(AgentResult(Message(PyList(<<TextSegment(PyStr("4"))>>)))),
   Returned(AgentResult(Message(PyList(<<TextSegment(PyNone)>>)))),
   Returned(AgentResult(Message(PyList(<<>>)))),
   Returned(AgentResult(PyNone)),
   Returned(PyNone),
   Returned(PyObj({})),
   Raised("ConnectionError", "Connection refused")}

\* What a call of the agent may yield.
Yields(a) == IF a = "stub" THEN StubOutcomes ELSE Outcomes

\* ------------------------------------------------------------------- state
\* agent     the agent passed to process_prompt: "stub" or "any"
\* callers   the calling contexts (sessions of the interface) that submit
\* agentLast the last result the shared agent produced (its retained history)
\* pc        where each calling context is: "idle", at a line of
\*           process_prompt ("l79" about to call the agent, "agent" inside the
\*           call, "l80", "l86", "l90", "l91"), "done" after a return,
\*           "raised" after an exception left process_prompt
\* prompt, response, exc   the locals prompt, response and e of each call
\* out       the values the current call has returned to its caller
\* exit      the line of the return statement the current call left through
\* logged    the records the current call has emitted through logger
\* calls     how often the current call has invoked the agent
\* outcome   what the agent yielded to the current call
AllCallers == 1..NumCallers

Init ==
  /\ agent = "stub"
  /\ callers = AllCallers
  /\ agentLast = Unbound
  /\ pc = [c \in AllCallers |-> "idle"]
  /\ prompt = [c \in AllCallers |-> ""]
  /\ response = [c \in AllCallers |-> Unbound]
  /\ exc = [c \in AllCallers |-> NoExc]
  /\ out = [c \in AllCallers |-> <<>>]
  /\ exit = [c \in AllCallers |-> 0]
  /\ logged = [c \in AllCallers |-> <<>>]
  /\ calls = [c \in AllCallers |-> 0]
  /\ outcome = [c \in AllCallers |-> NoOutcome]

\* One calling context and an agent that may yield any outcome.
InitExtract ==
  /\ agent = "any"
  /\ callers = {1}
  /\ agentLast = Unbound
  /\ pc = [c \in AllCallers |-> "idle"]
  /\ prompt = [c \in AllCallers |-> ""]
  /\ response = [c \in AllCallers |-> Unbound]
  /\ exc = [c \in AllCallers |-> NoExc]
  /\ out = [c \in AllCallers |-> <<>>]
  /\ exit = [c \in AllCallers |-> 0]
  /\ logged = [c \in AllCallers |-> <<>>]
  /\ calls = [c \in AllCallers |-> 0]
  /\ outcome = [c \in AllCallers |-> NoOutcome]

\* The response read from the shared agent instead of the local variable.
ResponseShared(c) == agentLast

\* The local variable response of call c.
ResponseOf(c) == response[c]

\* An exception of class t with message m leaves the try body of call c:
\* the handler of line 89 takes it, or it leaves process_prompt.
Propagate(c, t, m) ==
  /\ exc' = [exc EXCEPT ![c] = [type |-> t, msg |-> m]]
  /\ pc' = [pc EXCEPT ![c] = IF OuterCatches(t) THEN "l90" ELSE "raised"]

\* return v at the given line
Return(c, v, line) ==
  /\ out' = [out EXCEPT ![c] = Append(@, v)]
  /\ exit' = [exit EXCEPT ![c] = line]
  /\ pc' = [pc EXCEPT ![c] = "done"]

\* The submit callback: process_prompt(prompt, agent) is entered.
Submit(c) ==
  /\ c \in callers
  /\ pc[c] \in {"idle", "done"}
  /\ \E p \in Prompts : prompt' = [prompt EXCEPT ![c] = p]
  /\ pc' = [pc EXCEPT ![c] = "l79"]
  /\ response' = [response EXCEPT ![c] = Unbound]
  /\ exc' = [exc EXCEPT ![c] = NoExc]
  /\ out' = [out EXCEPT ![c] = <<>>]
  /\ exit' = [exit EXCEPT ![c] = 0]
  /\ logged' = [logged EXCEPT ![c] = <<>>]
  /\ calls' = [calls EXCEPT ![c] = 0]
  /\ outcome' = [outcome EXCEPT ![c] = NoOutcome]
  /\ UNCHANGED <<agent, callers, agentLast>>

\* Line 79, the call: agent(prompt=prompt)
CallAgent(c) ==
  /\ c \in callers
  /\ pc[c] = "l79"
  /\ calls' = [calls EXCEPT ![c] = @ + 1]
  /\ pc' = [pc EXCEPT ![c] = "agent"]
  /\ UNCHANGED <<agent, callers, agentLast, prompt, response, exc, out, exit,
                 logged, outcome>>

\* Line 79, the agent returns a response, bound to the local response.
AgentReturns(c) ==
  /\ c \in callers
  /\ pc[c] = "agent"
  /\ \E o \in Yields(agent) :
       /\ o.kind = "return"
       /\ response' = [response EXCEPT ![c] = o.val]
       /\ agentLast' = o.val
       /\ outcome' = [outcome EXCEPT ![c] = o]
  /\ pc' = [pc EXCEPT ![c] = "l80"]
  /\ UNCHANGED <<agent, callers, prompt, exc, out, exit, logged, calls>>

\* Line 79, the agent raises.
AgentRaises(c) ==
  /\ c \in callers
  /\ pc[c] = "agent"
  /\ \E o \in Yields(agent) :
       /\ o.kind = "raise"
       /\ outcome' = [outcome EXCEPT ![c] = o]
       /\ Propagate(c, o.type, o.msg)
  /\ UNCHANGED <<agent, callers, agentLast, prompt, response, out, exit,
                 logged, calls>>

\* Lines 80-81.
CheckResponse(c) ==
  /\ c \in callers
  /\ pc[c] = "l80"
  /\ LET r == NoResponse(ResponseOf(c)) IN
       IF r.exc # ""
         THEN Propagate(c, r.exc, r.msg) /\ UNCHANGED <<out, exit>>
       ELSE IF Truthy(r.val)
         THEN Return(c, PyStr(NoResponseMsg), 81) /\ UNCHANGED exc
       ELSE /\ pc' = [pc EXCEPT ![c] = "l86"]
            /\ UNCHANGED <<exc, out, exit>>
  /\ UNCHANGED <<agent, callers, agentLast, prompt, response, logged, calls,
                 outcome>>

\* Lines 84-88.
ExtractText(c) ==
  /\ c \in callers
  /\ pc[c] = "l86"
  /\ LET r == FirstText(ResponseOf(c)) IN
       IF r.exc = ""
         THEN Return(c, r.val, 86) /\ UNCHANGED exc
       ELSE IF r.exc \in InnerCaught
         THEN Return(c, PyStr(InvalidFormatMsg), 88) /\ UNCHANGED exc
       ELSE Propagate(c, r.exc, r.msg) /\ UNCHANGED <<out, exit>>
  /\ UNCHANGED <<agent, callers, agentLast, prompt, response, logged, calls,
                 outcome>>

\* Line 90 missing: the handler goes to its return without a log record.
SkipLog(c) ==
  /\ c \in callers
  /\ pc[c] = "l90"
  /\ pc' = [pc EXCEPT ![c] = "l91"]
  /\ UNCHANGED <<agent, callers, agentLast, prompt, response, exc, out, exit,
                 logged, calls, outcome>>

\* Line 90.
LogError(c) ==
  /\ c \in callers
  /\ pc[c] = "l90"
  /\ logged' = [logged EXCEPT ![c] = Append(@, LogRecord(exc[c]))]
  /\ pc' = [pc EXCEPT ![c] = "l91"]
  /\ UNCHANGED <<agent, callers, agentLast, prompt, response, exc, out, exit,
                 calls, outcome>>

\* Line 91 as a retry: the handler calls the agent again.
RetryAgent(c) ==
  /\ c \in callers
  /\ pc[c] = "l91"
  /\ pc' = [pc EXCEPT ![c] = "l79"]
  /\ UNCHANGED <<agent, callers, agentLast, prompt, response, exc, out, exit,
                 logged, calls, outcome>>

\* Line 91 as a bare raise, as in the handler of main (line 173).
Reraise(c) ==
  /\ c \in callers
  /\ pc[c] = "l91"
  /\ pc' = [pc EXCEPT ![c] = "raised"]
  /\ UNCHANGED <<agent, callers, agentLast, prompt, response, exc, out, exit,
                 logged, calls, outcome>>

\* Line 91.
ReturnError(c) ==
  /\ c \in callers
  /\ pc[c] = "l91"
  /\ Return(c, ErrorResult(exc[c]), 91)
  /\ UNCHANGED <<agent, callers, agentLast, prompt, response, exc, logged,
                 calls, outcome>>

\* The steps process_prompt takes by itself, once the agent has answered.
Step(c) ==
  CheckResponse(c) \/ ExtractText(c) \/ LogError(c) \/ ReturnError(c)

Next ==
  \E c \in AllCallers :
    \/ Submit(c)
    \/ CallAgent(c)
    \/ AgentReturns(c)
    \/ AgentRaises(c)
    \/ CheckResponse(c)
    \/ ExtractText(c)
    \/ LogError(c)
    \/ ReturnError(c)

Spec == Init /\ [][Next]_vars

SpecExtract == InitExtract /\ [][Next]_vars

\* process_prompt is synchronous code: once the agent has answered, the call
\* runs to its return.  The agent itself has no timeout and may never answer.
FairSpecExtract == SpecExtract /\ \A c \in AllCallers : WF_vars(Step(c))

TypeOK ==
  /\ callers \subseteq AllCallers
  /\ \A c \in AllCallers :
       /\ pc[c] \in {"idle", "l79", "agent", "l80", "l86", "l90", "l91", "done", "raised"}
       /\ prompt[c] \in Prompts
       /\ calls[c] \in 0..1
       /\ Len(out[c]) <= 1

\* ------------------------------------------------- vocabulary of the claims
Done(c) == c \in callers /\ pc[c] = "done"

GotResponse(c) == c \in callers /\ outcome[c].kind = "return"

GotFailure(c) == c \in callers /\ outcome[c].kind = "raise"

\* The response is an object that has a message field.
HasMessageField(r) == r.k = "AgentResult" /\ (\E p \in r.d : p[1] = PyStr("message"))

MessageField(r) == (CHOOSE p \in r.d : p[1] = PyStr("message"))[2]

\* The message is None or empty.
EmptyMessage(m) == m \in {PyNone, PyDict({}), PyStr(""), PyList(<<>>)}

\* The message is a mapping that has a content field.
HasContentField(m) == m.k = "dict" /\ (\E p \in m.d : p[1] = PyStr("content"))

ContentField(m) == (CHOOSE p \in m.d : p[1] = PyStr("content"))[2]

IsSequence(v) == v.k = "list"

\* The segment is a mapping that carries a text payload.
HasTextPayload(seg) == seg.k = "dict" /\ (\E p \in seg.d : p[1] = PyStr("text"))

TextPayload(seg) == (CHOOSE p \in seg.d : p[1] = PyStr("text"))[2]

\* The content has an element at index 0.
HasFirst(c) ==
  \/ c.k = "list" /\ Len(c.items) >= 1
  \/ c.k = "str" /\ Len(c.s) >= 1
  \/ c.k = "dict" /\ (\E p \in c.d : p[1] = PyInt(0))

FirstOf(c) ==
  CASE c.k = "list" -> c.items[1]
    [] c.k = "str" -> PyStr(SubSeq(c.s, 1, 1))
    [] OTHER -> (CHOOSE p \in c.d : p[1] = PyInt(0))[2]

\* A message with a non-empty content sequence whose first element carries a
\* text payload.
TextFirst(r) ==
  /\ HasMessageField(r)
  /\ HasContentField(MessageField(r))
  /\ IsSequence(ContentField(MessageField(r)))
  /\ Len(ContentField(MessageField(r)).items) >= 1
  /\ HasTextPayload(ContentField(MessageField(r)).items[1])

\* A message with an empty content sequence.
EmptyContent(r) ==
  /\ HasMessageField(r)
  /\ HasContentField(MessageField(r))
  /\ ContentField(MessageField(r)) = PyList(<<>>)

\* A response object without a message: the field is missing, None or empty.
NoMessage(r) ==
  /\ r.k = "AgentResult"
  /\ (~HasMessageField(r) \/ EmptyMessage(MessageField(r)))

\* ---------------------------------------------------------------------- C1
\* C1: when the agent returns a response whose message has a non-empty content
\* sequence and whose first content element carries a text payload,
\* process_prompt returns exactly that payload, unchanged.
C1_FirstTextVerbatim ==
  \A c \in callers :
    (Done(c) /\ GotResponse(c) /\ TextFirst(outcome[c].val)) =>
      out[c] = <<TextPayload(ContentField(MessageField(outcome[c].val)).items[1])>>

\* A call has returned the untrimmed text of the first of two different text
\* segments.
C1_Witness ==
  \E c \in callers :
    /\ Done(c)
    /\ outcome[c] = Returned(AgentResult(Message(PyList(
                      <<TextSegment(PyStr(" 4 ")), TextSegment(PyStr("4"))>>))))
    /\ out[c] = <<PyStr(" 4 ")>>
    /\ exit[c] = 86

\* ---------------------------------------------------------------------- C2
\* C2 as stated: a response with an empty content sequence, or with no message
\* (missing, None or empty), makes process_prompt return exactly
\* "Error: Invalid response format".
C2_Original ==
  \A c \in callers :
    (Done(c) /\ GotResponse(c)
       /\ (EmptyContent(outcome[c].val) \/ NoMessage(outcome[c].val))) =>
      out[c] = <<PyStr(InvalidFormatMsg)>>

\* C2 amended: an empty content sequence yields "Error: Invalid response
\* format"; a message that is None or empty yields "Error: No response
\* received from agent"; a response object without a message field yields
\* "Error: " followed by the message of the AttributeError.
C2_Amended ==
  \A c \in callers :
    (Done(c) /\ GotResponse(c)) =>
      LET r == outcome[c].val IN
        /\ EmptyContent(r) => out[c] = <<PyStr(InvalidFormatMsg)>>
        /\ (HasMessageField(r) /\ EmptyMessage(MessageField(r))) =>
             out[c] = <<PyStr(NoResponseMsg)>>
        /\ (r.k = "AgentResult" /\ ~HasMessageField(r)) =>
             out[c] = <<PyStr("Error: 'AgentResult' object has no attribute 'message'")>>

\* A call has answered an empty content sequence with the placeholder.
C2_Witness ==
  \E c \in callers :
    /\ Done(c)
    /\ outcome[c] = Returned(AgentResult(Message(PyList(<<>>))))
    /\ out[c] = <<PyStr(InvalidFormatMsg)>>
    /\ exit[c] = 88

ListedFault(r) ==
  /\ r.k = "AgentResult"
  /\ \/ ~HasMessageField(r)
     \/ ~HasContentField(MessageField(r))
     \/ ~IsSequence(ContentField(MessageField(r)))
     \/ /\ Len(ContentField(MessageField(r)).items) >= 1
        /\ ~HasTextPayload(ContentField(MessageField(r)).items[1])

PlaceholderFault(r) ==
  /\ HasMessageField(r)
  /\ ~EmptyMessage(MessageField(r))
  /\ \/ ~HasContentField(MessageField(r))
     \/ ~HasFirst(ContentField(MessageField(r)))
     \/ ~HasTextPayload(FirstOf(ContentField(MessageField(r))))

Pending(c) == c \in callers /\ pc[c] \in {"l79", "agent", "l80", "l86", "l90", "l91"}

Succeeded(c) == Done(c) /\ exit[c] = 86

Failed(c) == Done(c) /\ exit[c] \in {81, 88, 91}

\* The agent call of the request has returned or raised.
Answered(c) == c \in callers /\ pc[c] \in {"l80", "l86", "l90", "l91"}

\* A request has produced no result while pending, exactly one when terminal,
\* and no exception leaves process_prompt.
OneResult ==
  \A c \in callers :
    /\ pc[c] # "raised"
    /\ Pending(c) => (out[c] = <<>> /\ exit[c] = 0)
    /\ Done(c) => (Len(out[c]) = 1 /\ (Succeeded(c) \/ Failed(c)))

\* A terminal request keeps its outcome and its result until a new submission
\* of the same calling context begins.
TerminalStable ==
  \A c \in AllCallers :
    (pc[c] = "done" /\ pc'[c] # "l79") =>
      (pc'[c] = "done" /\ out'[c] = out[c] /\ exit'[c] = exit[c])

C6_Original ==
  \A c \in callers : Failed(c) => Len(logged[c]) >= 1

\* The submission ends in the handler of line 89: the agent raised, or the
\* response object has no message field.
HandlerCase(c) ==
  \/ GotFailure(c)
  \/ GotResponse(c) /\ Truthy(outcome[c].val) /\ ~HasMessageField(outcome[c].val)

\* C6 amended: a submission that ends through the exception handler (the agent
\* raised, or the response has no message field) has emitted one ERROR record
\* with exception information before its error string is returned; the
\* returns for a missing or empty response and for a malformed response emit
\* no log record.
C6_Amended ==
  \A c \in callers :
    /\ (HandlerCase(c) /\ pc[c] = "l91") =>
         (out[c] = <<>> /\ logged[c] = <<LogRecord(exc[c])>>)
    /\ (HandlerCase(c) /\ Done(c)) =>
         (exit[c] = 91 /\ logged[c] = <<LogRecord(exc[c])>>)
    /\ (Done(c) /\ ~HandlerCase(c)) => logged[c] = <<>>

\* A call whose agent raised is about to return, the record already emitted.
C6_Witness ==
  \E c \in callers :
    /\ pc[c] = "l91"
    /\ GotFailure(c)
    /\ out[c] = <<>>
    /\ Len(logged[c]) = 1
    /\ logged[c][1].msg = "Error processing prompt: Connection refused"

\* ---------------------------------------------------------------------- C7
\* C7: each submission invokes the agent exactly once, whatever the outcome;
\* a further agent call happens only on a new submission.
C7_AgentCalledOnce ==
  \A c \in callers :
    calls[c] = IF pc[c] \in {"idle", "l79"} THEN 0 ELSE 1

\* A submission has failed through the handler after one agent call.
C7_Witness ==
  \E c \in callers : Failed(c) /\ exit[c] = 91 /\ GotFailure(c) /\ calls[c] = 1

\* ---------------------------------------------------------------------- C8
\* C8: whatever the agent yields, the value process_prompt returns is a
\* string, never None.
C8_ResultIsString ==
  \A c \in callers : Done(c) => (Len(out[c]) = 1 /\ IsStr(out[c][1]))

\* ---------------------------------------------------------------------- C9
\* C9 as stated: for no failure message does the failure path return
\* "Error: Invalid response format".
C9_Original ==
  \A c \in callers :
    (Done(c) /\ GotFailure(c)) => out[c] # <<PyStr(InvalidFormatMsg)>>

\* C9 amended: the failure path returns "Error: Invalid response format" only
\* for a failure whose message is "Invalid response format"; for every other
\* failure message its result differs from the placeholder.
C9_Amended ==
  \A c \in callers :
    (Done(c) /\ GotFailure(c)) =>
      (out[c] = <<PyStr(InvalidFormatMsg)>> <=> outcome[c].msg = "Invalid response format")

\* A failure with another message has produced a result that is not the
\* placeholder.
C9_Witness ==
  \E c \in callers :
    /\ Done(c)
    /\ outcome[c] = Raised("ConnectionError", "Connection refused")
    /\ exit[c] = 91
    /\ out[c] # <<PyStr(InvalidFormatMsg)>>

\* --------------------------------------------------------------------- C10
\* C10: under any interleaving of the calling contexts, the result of a call
\* depends on the outcome the agent gave to that call alone: two calls that
\* received the same outcome have the same result.
C10_ResultDependsOnOwnOutcome ==
  \A c1, c2 \in callers :
    (Done(c1) /\ Done(c2) /\ outcome[c1] = outcome[c2]) => out[c1] = out[c2]

\* Two different calling contexts have finished with the same response and the
\* same result.
C10_Witness ==
  \E c1, c2 \in callers :
    /\ c1 # c2
    /\ Done(c1) /\ Done(c2)
    /\ outcome[c1] = outcome[c2]
    /\ out[c1] = out[c2]
    /\ outcome[c1].kind = "return"

====
